---- MODULE Spec2Model ----
(***************************************************************************)
(* Model of restream_io._schemas.ChannelWithMeta                           *)
(* (src/cli/python/src/restream_io/_schemas.py): an attrs class that adds  *)
(* title and description to pyrestream.schemas.Channel and renders itself  *)
(* with __str__.                                                           *)
(*                                                                         *)
(* Python strings are sequences of one-character strings.  A Python value  *)
(* is a tagged record [t, b, s]: t is the Python type, b the payload of a  *)
(* bool, s the payload of a str.  The f-string of __str__ is evaluated as   *)
(* CPython evaluates it: one replacement field after another, left to      *)
(* right, each an attribute load that other threads may interleave with.   *)
(***************************************************************************)
EXTENDS Naturals, Sequences, FiniteSets

VARIABLES
    state,      \* "unconstructed" | "constructed" | "failed"
    args,       \* the arguments the constructor was called with
    err,        \* exception raised by the constructor call ("none" if none)
    rec,        \* the instance's attribute slots
    nAssign,    \* attribute assignments made so far
    pc,         \* __str__ frame: 0 no call, k in 1..9 about to format field k, 10 about to return
    buf,        \* __str__ frame: text built so far
    callSnaps,  \* values the record has had during the current __str__ call
    rendered,   \* [in, out, again] of every __str__ call during which the record kept one
                \* value; again: that value had been rendered before
    last,       \* [set, out, snaps] of the latest __str__ call that returned
    raised,     \* exception raised by a __str__ call ("none" if none)
    console     \* text written to stdout / logs

vars == <<state, args, err, rec, nAssign, pc, buf, callSnaps, rendered, last, raised, console>>

---------------------------------------------------------------------------
\* Bounds of the model.

\* Longest title / description the constructor is called with.
MaxLen == 1

\* Attribute assignments per run.
MaxAssign == 2

---------------------------------------------------------------------------
\* Python values.

Str(s) == [t |-> "str", b |-> FALSE, s |-> s]

Bool(b) == [t |-> "bool", b |-> b, s |-> <<>>]

None == [t |-> "NoneType", b |-> FALSE, s |-> <<>>]

\* An argument the call does not supply / a slot that was never set.
Missing == [t |-> "missing", b |-> FALSE, s |-> <<>>]

NL == "\n"

\* Characters the title and description inputs are built from.
Alphabet == {"a", NL}

StrsUpTo(n) == UNION {[1..k -> Alphabet] : k \in 0..n}

---------------------------------------------------------------------------
\* The class: its fields and what the decorator generates.

\* Fields inherited from pyrestream.schemas.Channel (those __str__ reads).
BaseFields == {"id", "display_name", "active", "channel_url",
               "channel_identifier", "service_id", "user_id"}

\* Fields the subclass adds.
MetaFields == {"title", "description"}

Fields == BaseFields \cup MetaFields

\* @attrs.define: frozen defaults to False.
define_frozen == FALSE

\* Whether the base class Channel is declared frozen (attrs then makes the
\* subclass frozen too).  Channel lives in the pyrestream package, outside
\* this file; it is taken to be a plain @attrs.define class like its subclass.
Channel_frozen == FALSE

Frozen == define_frozen \/ Channel_frozen

NoRecord == [f \in Fields |-> Missing]

---------------------------------------------------------------------------
\* __str__: the f-string, piece by piece.

NFields == 9

\* Mutant of FieldAt: the Title and Description lines read each other's field.
FieldAtSwapped(k) ==
    <<"id", "display_name", "description", "title", "active",
      "channel_url", "channel_identifier", "service_id", "user_id">>[k]

\* The attribute the k-th replacement field reads.
FieldAt(k) ==
    <<"id", "display_name", "title", "description", "active",
      "channel_url", "channel_identifier", "service_id", "user_id">>[k]

\* The literal text in front of the k-th replacement field.
Literal(k) ==
    CASE k = 1 -> <<"C", "h", "a", "n", "n", "e", "l", " ", "I", "n", "f", "o", "r", "m", "a", "t", "i", "o", "n", ":", NL, " ", " ", "I", "D", ":", " ">>
      [] k = 2 -> <<NL, " ", " ", "D", "i", "s", "p", "l", "a", "y", " ", "N", "a", "m", "e", ":", " ">>
      [] k = 3 -> <<NL, " ", " ", "T", "i", "t", "l", "e", ":", " ">>
      [] k = 4 -> <<NL, " ", " ", "D", "e", "s", "c", "r", "i", "p", "t", "i", "o", "n", ":", " ">>
      [] k = 5 -> <<NL, " ", " ", "S", "t", "a", "t", "u", "s", ":", " ">>
      [] k = 6 -> <<NL, " ", " ", "C", "h", "a", "n", "n", "e", "l", " ", "U", "R", "L", ":", " ">>
      [] k = 7 -> <<NL, " ", " ", "C", "h", "a", "n", "n", "e", "l", " ", "I", "d", "e", "n", "t", "i", "f", "i", "e", "r", ":", " ">>
      [] k = 8 -> <<NL, " ", " ", "S", "e", "r", "v", "i", "c", "e", " ", "I", "D", ":", " ">>
      [] k = 9 -> <<NL, " ", " ", "U", "s", "e", "r", " ", "I", "D", ":", " ">>

\* Mutant of Truthy: "is not None" in place of the truth value.
TruthyNotNone(v) == v.t # "NoneType"

\* Python truth value of v.
Truthy(v) ==
    CASE v.t = "bool" -> v.b
      [] v.t = "str" -> Len(v.s) > 0
      [] OTHER -> FALSE

\* 'Active' if self.active else 'Inactive'
StatusText(v) ==
    IF Truthy(v) THEN <<"A", "c", "t", "i", "v", "e">>
    ELSE <<"I", "n", "a", "c", "t", "i", "v", "e">>

\* Mutant of Format: a formatter that indexes the first character and so
\* raises on an empty string.
FormatRaisesOnEmpty(v) ==
    CASE v.t = "str" -> [ok |-> Len(v.s) > 0, s |-> v.s]
      [] v.t = "bool" -> [ok |-> TRUE, s |-> IF v.b THEN <<"T", "r", "u", "e">> ELSE <<"F", "a", "l", "s", "e">>]
      [] v.t = "NoneType" -> [ok |-> TRUE, s |-> <<"N", "o", "n", "e">>]
      [] OTHER -> [ok |-> FALSE, s |-> <<>>]

\* format(v, ""): the text a replacement field {v} contributes, or an exception.
Format(v) ==
    CASE v.t = "str" -> [ok |-> TRUE, s |-> v.s]
      [] v.t = "bool" -> [ok |-> TRUE, s |-> IF v.b THEN <<"T", "r", "u", "e">> ELSE <<"F", "a", "l", "s", "e">>]
      [] v.t = "NoneType" -> [ok |-> TRUE, s |-> <<"N", "o", "n", "e">>]
      [] OTHER -> [ok |-> FALSE, s |-> <<>>]

\* The value of the expression in the k-th replacement field, on record r.
Expr(k, r) ==
    IF FieldAt(k) = "active" THEN Str(StatusText(r.active)) ELSE r[FieldAt(k)]

\* __str__ run without interruption on record r, up to and including field k.
RECURSIVE RenderUpTo(_, _)
RenderUpTo(r, k) ==
    IF k = 0 THEN <<>>
    ELSE RenderUpTo(r, k - 1) \o Literal(k) \o Format(Expr(k, r)).s

RenderStr(r) == RenderUpTo(r, NFields)

---------------------------------------------------------------------------
\* Inputs the constructor is called with.

\* The channel of the spec's concrete scenario.
BaseA ==
    [id |-> Str(<<"c", "1">>),
     display_name |-> Str(<<"M", "y", " ", "C", "h", "a", "n", "n", "e", "l">>),
     active |-> Bool(TRUE),
     channel_url |-> Str(<<"h", "t", "t", "p", "s", ":", "/", "/", "x", ".", "t", "v", "/", "c", "1">>),
     channel_identifier |-> Str(<<"c", "1", "-", "e", "x", "t">>),
     service_id |-> Str(<<"s", "v", "c", "1">>),
     user_id |-> Str(<<"u", "1">>)]

\* An inactive channel with empty strings, the last field among them.
BaseB ==
    [id |-> Str(<<"c", "2">>),
     display_name |-> Str(<<>>),
     active |-> Bool(FALSE),
     channel_url |-> Str(<<>>),
     channel_identifier |-> Str(<<"c", "2", "-", "e", "x", "t">>),
     service_id |-> Str(<<"s", "v", "c", "2">>),
     user_id |-> Str(<<>>)]

\* A null base record: every base field passed as None.
BaseNull == [f \in BaseFields |-> None]

\* An absent base record: no base field passed.
BaseAbsent == [f \in BaseFields |-> Missing]

BaseRecords == {BaseA, BaseB, BaseNull, BaseAbsent}

MetaValues == {Str(s) : s \in StrsUpTo(MaxLen)} \cup {None, Missing}

MkArgs(b, t, d) ==
    [f \in Fields |->
        IF f = "title" THEN t ELSE IF f = "description" THEN d ELSE b[f]]

ConstructInputs ==
    {MkArgs(b, t, d) : b \in BaseRecords, t \in MetaValues, d \in MetaValues}

\* Fields the model assigns to, and the values it assigns.
AssignFields == {"id", "user_id"}

AssignValues == {Str(<<"b">>)}

---------------------------------------------------------------------------
\* The state machine.

NoLast == [set |-> FALSE, out |-> <<>>, snaps |-> {}]

Init ==
    /\ state = "unconstructed"
    /\ args = NoRecord
    /\ err = "none"
    /\ rec = NoRecord
    /\ nAssign = 0
    /\ pc = 0
    /\ buf = <<>>
    /\ callSnaps = {}
    /\ rendered = {}
    /\ last = NoLast
    /\ raised = "none"
    /\ console = <<>>

\* Mutant of Construct: a validator that treats an empty title or description
\* as missing.
ConstructRejectEmpty(a) ==
    /\ state = "unconstructed"
    /\ args' = a
    /\ IF \E f \in Fields : a[f] = Missing \/ (f \in MetaFields /\ a[f] = Str(<<>>))
       THEN /\ state' = "failed"
            /\ err' = "TypeError"
            /\ rec' = rec
       ELSE /\ state' = "constructed"
            /\ err' = err
            /\ rec' = a
    /\ UNCHANGED <<nAssign, pc, buf, callSnaps, rendered, last, raised, console>>

\* The generated __init__(self, id, ..., title, description): every field is
\* a required argument; a call that leaves one out raises TypeError before
\* any attribute is set; otherwise each argument is stored as given.
Construct(a) ==
    /\ state = "unconstructed"
    /\ args' = a
    /\ IF \E f \in Fields : a[f] = Missing
       THEN /\ state' = "failed"
            /\ err' = "TypeError"
            /\ rec' = rec
       ELSE /\ state' = "constructed"
            /\ err' = err
            /\ rec' = a
    /\ UNCHANGED <<nAssign, pc, buf, callSnaps, rendered, last, raised, console>>

\* self.f = v from any thread: the class is not frozen and declares no
\* validators or converters, so the slot simply takes the value.
SetAttr(f, v) ==
    /\ state = "constructed"
    /\ ~Frozen
    /\ nAssign < MaxAssign
    /\ rec' = [rec EXCEPT ![f] = v]
    /\ nAssign' = nAssign + 1
    /\ callSnaps' = IF pc # 0 THEN callSnaps \cup {rec'} ELSE callSnaps
    /\ UNCHANGED <<state, args, err, pc, buf, rendered, last, raised, console>>

\* Mutant of Call: the text is built in an accumulator that outlives the call.
CallKeepBuf ==
    /\ state = "constructed"
    /\ pc = 0
    /\ pc' = 1
    /\ buf' = last.out
    /\ callSnaps' = {rec}
    /\ UNCHANGED <<state, args, err, rec, nAssign, rendered, last, raised, console>>

\* str(record): a new frame, nothing built yet.
Call ==
    /\ state = "constructed"
    /\ pc = 0
    /\ pc' = 1
    /\ buf' = <<>>
    /\ callSnaps' = {rec}
    /\ UNCHANGED <<state, args, err, rec, nAssign, rendered, last, raised, console>>

\* Mutant of FormatStep: each line is also printed as it is formatted.
FormatStepPrints ==
    /\ pc \in 1..NFields
    /\ LET e == Format(Expr(pc, rec)) IN
        /\ buf' = buf \o Literal(pc) \o e.s
        /\ pc' = pc + 1
        /\ console' = <<Literal(pc) \o e.s>>
    /\ UNCHANGED <<state, args, err, rec, nAssign, callSnaps, rendered, last, raised>>

\* One replacement field: load the attribute, format it, append it after
\* the literal text in front of it.
FormatStep ==
    /\ pc \in 1..NFields
    /\ LET e == Format(Expr(pc, rec)) IN
        IF e.ok
        THEN /\ buf' = buf \o Literal(pc) \o e.s
             /\ pc' = pc + 1
             /\ raised' = raised
        ELSE /\ buf' = <<>>
             /\ pc' = 0
             /\ raised' = "Error"
    /\ UNCHANGED <<state, args, err, rec, nAssign, callSnaps, rendered, last, console>>

\* return the built string.
Return ==
    /\ pc = NFields + 1
    /\ pc' = 0
    /\ buf' = <<>>
    /\ last' = [set |-> TRUE, out |-> buf, snaps |-> callSnaps]
    /\ rendered' = IF Cardinality(callSnaps) = 1
                   THEN rendered \cup {[in |-> rec, out |-> buf,
                                         again |-> \E p \in rendered : p.in = rec]}
                   ELSE rendered
    /\ callSnaps' = {}
    /\ UNCHANGED <<state, args, err, rec, nAssign, raised, console>>

Next ==
    \/ \E a \in ConstructInputs : Construct(a)
    \/ \E f \in AssignFields : \E v \in AssignValues : SetAttr(f, v)
    \/ Call
    \/ FormatStep
    \/ Return

Spec == Init /\ [][Next]_vars

---------------------------------------------------------------------------
\* Vocabulary of the properties below: the rendering contract as the
\* specification words it, written independently of Literal and FieldAt.

Header == <<"C", "h", "a", "n", "n", "e", "l", " ", "I", "n", "f", "o", "r", "m", "a", "t", "i", "o", "n", ":">>

Label(k) ==
    CASE k = 1 -> <<"I", "D">>
      [] k = 2 -> <<"D", "i", "s", "p", "l", "a", "y", " ", "N", "a", "m", "e">>
      [] k = 3 -> <<"T", "i", "t", "l", "e">>
      [] k = 4 -> <<"D", "e", "s", "c", "r", "i", "p", "t", "i", "o", "n">>
      [] k = 5 -> <<"S", "t", "a", "t", "u", "s">>
      [] k = 6 -> <<"C", "h", "a", "n", "n", "e", "l", " ", "U", "R", "L">>
      [] k = 7 -> <<"C", "h", "a", "n", "n", "e", "l", " ", "I", "d", "e", "n", "t", "i", "f", "i", "e", "r">>
      [] k = 8 -> <<"S", "e", "r", "v", "i", "c", "e", " ", "I", "D">>
      [] k = 9 -> <<"U", "s", "e", "r", " ", "I", "D">>

LabelledField(k) ==
    CASE k = 1 -> "id"
      [] k = 2 -> "display_name"
      [] k = 3 -> "title"
      [] k = 4 -> "description"
      [] k = 5 -> "active"
      [] k = 6 -> "channel_url"
      [] k = 7 -> "channel_identifier"
      [] k = 8 -> "service_id"
      [] k = 9 -> "user_id"

ActiveText == <<"A", "c", "t", "i", "v", "e">>

InactiveText == <<"I", "n", "a", "c", "t", "i", "v", "e">>

\* "  <label>: <value>"
LineOf(label, value) == <<" ", " ">> \o label \o <<":", " ">> \o value

ExpectedLine(k, r) ==
    LineOf(Label(k),
           IF LabelledField(k) = "active"
           THEN (IF r.active.b THEN ActiveText ELSE InactiveText)
           ELSE r[LabelledField(k)].s)

\* s cut at its newline characters.
RECURSIVE SplitLines(_)
SplitLines(s) ==
    IF \A i \in 1..Len(s) : s[i] # NL THEN <<s>>
    ELSE LET i == CHOOSE i \in 1..Len(s) : s[i] = NL /\ \A j \in 1..(i - 1) : s[j] # NL
         IN <<SubSeq(s, 1, i - 1)>> \o SplitLines(SubSeq(s, i + 1, Len(s)))

LineSet(s) == LET L == SplitLines(s) IN {L[i] : i \in 1..Len(L)}

NLCount(s) == Cardinality({i \in 1..Len(s) : s[i] = NL})

\* A valid Extended Display Record: strings, and a boolean active.
Valid(r) ==
    \A f \in Fields : IF f = "active" THEN r[f].t = "bool" ELSE r[f].t = "str"

NoNewline(r) ==
    \A f \in Fields : \A i \in 1..Len(r[f].s) : r[f].s[i] # NL

\* The latest __str__ call has returned, and the record kept one value
\* throughout it: LastIn.
LastClean == pc = 0 /\ last.set /\ Cardinality(last.snaps) = 1

LastIn == CHOOSE r \in last.snaps : TRUE

Absent(v) == v.t \in {"missing", "NoneType"}

---------------------------------------------------------------------------
\* C1 as stated: for every valid base record and every valid (title,
\* description) pair, the rendered string is the header line followed by
\* exactly 9 lines, in the fixed order, each two spaces, the label, ": " and
\* the field's value, separated by single newlines, with no trailing newline.
\* Refuted: a title or description that contains a newline spreads its value
\* over more than one line.
C1_NineLines ==
    (LastClean /\ Valid(LastIn)) =>
        LET L == SplitLines(last.out) IN
            /\ Len(L) = NFields + 1
            /\ L[1] = Header
            /\ \A k \in 1..NFields : L[k + 1] = ExpectedLine(k, LastIn)

\* C1 amended: the same, for the valid records none of whose string values
\* contains a newline character.
C1_NineLinesNoNewline ==
    (LastClean /\ Valid(LastIn) /\ NoNewline(LastIn)) =>
        LET L == SplitLines(last.out) IN
            /\ Len(L) = NFields + 1
            /\ L[1] = Header
            /\ \A k \in 1..NFields : L[k + 1] = ExpectedLine(k, LastIn)

C1_Witness ==
    /\ LastClean /\ Valid(LastIn) /\ NoNewline(LastIn)
    /\ LastIn.title = Str(<<"a">>)
    /\ LastIn.user_id = Str(<<>>)
    /\ Len(SplitLines(last.out)) = NFields + 1

\* C2: for every record with a boolean active, whatever its other fields,
\* the rendered text has the line "  Status: Active" exactly when active is
\* true and the line "  Status: Inactive" exactly when active is false.
C2_StatusFromActive ==
    (LastClean /\ LastIn.active.t = "bool") =>
        LET lines == LineSet(last.out) IN
            /\ LastIn.active.b <=> LineOf(Label(5), ActiveText) \in lines
            /\ ~LastIn.active.b <=> LineOf(Label(5), InactiveText) \in lines

C2_Witness ==
    /\ LastClean
    /\ LastIn.active = Bool(FALSE)
    /\ LastIn.title = Str(<<NL>>)
    /\ LineOf(Label(5), InactiveText) \in LineSet(last.out)

C4_FailsIffAbsent ==
    state # "unconstructed" =>
        /\ state = "failed" <=>
              \/ \A f \in BaseFields : Absent(args[f])
              \/ Absent(args.title)
              \/ Absent(args.description)
        /\ state = "failed" => rec = NoRecord

\* C5: a constructor call that supplies every argument, with an empty title
\* and/or an empty description, succeeds; an empty title renders as the line
\* "  Title: " and an empty description as the line "  Description: ", each
\* in its place (line 4; line 5, moved down by the newlines of the title).
C5_EmptyMetaRenders ==
    /\ ( /\ state # "unconstructed"
         /\ \A f \in Fields : args[f] # Missing
         /\ args.title = Str(<<>>) \/ args.description = Str(<<>>) )
       => (state = "constructed" /\ err = "none")
    /\ LastClean =>
        LET L == SplitLines(last.out) IN
            /\ LastIn.title = Str(<<>>) => L[4] = LineOf(Label(3), <<>>)
            /\ LastIn.description = Str(<<>>) =>
                  L[5 + NLCount(LastIn.title.s)] = LineOf(Label(4), <<>>)

C5_Witness ==
    /\ LastClean
    /\ args.title = Str(<<>>) /\ args.description = Str(<<>>)
    /\ LastIn.title = Str(<<>>) /\ LastIn.description = Str(<<>>)
    /\ LineOf(Label(3), <<>>) \in LineSet(last.out)

\* C6: any two __str__ calls on records with pairwise equal fields, the same
\* record rendered twice included, return the same string.
C6_Deterministic ==
    \A p \in rendered : \A q \in rendered : p.in = q.in => p.out = q.out

C6_Witness ==
    \E p \in rendered : \E q \in rendered :
        p.in = q.in /\ ~p.again /\ q.again /\ p.out = q.out

\* C7 as stated: every record the constructor returns holds a non-null
\* value in each of its nine fields.
C7_AllPopulated ==
    (state = "constructed" /\ nAssign = 0) =>
        \A f \in Fields : ~Absent(rec[f])

\* C8: a step of __str__ (the call, a replacement field, the return)
\* leaves every field of the record, the constructor's outcome and the
\* console unchanged: it touches its own frame and nothing else.
C8_RenderPure ==
    [][pc' # pc =>
        /\ rec' = rec
        /\ console' = console
        /\ <<state, args, err, nAssign, raised>>' = <<state, args, err, nAssign, raised>>]_vars

C8_Witness ==
    /\ pc = 0 /\ last.set
    /\ last.out = RenderStr(rec)
    /\ console = <<>>

\* C9: __str__ never raises, and a call in progress can always take its
\* next step, so it returns after its nine replacement fields; this for
\* every record, the valid ones (empty strings included) among them.
C9_RenderNeverFails ==
    /\ raised = "none"
    /\ pc # 0 => ENABLED (FormatStep \/ Return)

C9_Witness ==
    /\ LastClean /\ Valid(LastIn)
    /\ LastIn.display_name = Str(<<>>) /\ LastIn.title = Str(<<>>)
    /\ raised = "none"

====
